---------------------------- MODULE Spec2Model ----------------------------
(***************************************************************************)
(* Model of requirements-answer-tool/frontend/script.js.                   *)
(*                                                                         *)
(* Text is a sequence of tokens; the JavaScript string a sequence stands   *)
(* for is the concatenation of its tokens.  The tokens the regular         *)
(* expressions of separateCommentAndAnswer look at are tokens of their     *)
(* own: "**" (a bold marker), ":" and "." (the terminators of a            *)
(* commentary pattern), " " and "\n" (white space; "\n" is the one "."     *)
(* does not match without the s flag).  Every other token is a word: a     *)
(* run of characters holding no "*", ":", "." or line break and neither    *)
(* starting nor ending with white space.  The literal prefix of a pattern  *)
(* is one word ("Basierend auf"), or "**", word, "**".                     *)
(*                                                                         *)
(* Scores are in hundredths: 70 stands for 0.7.                            *)
(***************************************************************************)
EXTENDS Integers, Sequences, FiniteSets, TLC

VARIABLES
    fullAnswer,   \* the argument of separateCommentAndAnswer
    stage,        \* which call of the splitter harness has been made
    result,       \* what the last call returned
    previous,     \* what the call before it returned
    scores,       \* one answer's confidence_score and fuzzy_score
    classes,      \* the bands getConfidenceClass and getFuzzyClass gave
    rowView,      \* the two confidence lines displayAnswers rendered
    currentQuestions,  \* the global of line 2
    currentAnswers,    \* the global of line 3
    inflight,          \* the requests sent and not yet answered
    reading,           \* the requests answered ok whose body is being read
    opCount,           \* how many handlers the user has started
    overlay,           \* whether #loading-overlay has the class "show"
    alert,             \* the alert showAlert put at the top of the page
    questionsView,     \* #questions-list
    answersView,       \* #answers-container and whether #answers-section is displayed
    processingView,    \* #results-container
    singleView,        \* #single-answer-content and #single-answer-sources
    exported,          \* the sheets of the Excel files written, in order
    last,              \* the last step taken, and the request it settled
    mainEntity,        \* the case the verification script is run for
    resultObject       \* the messages the script added, and whether it ran

splitVars == <<fullAnswer, stage, result, previous>>
bandVars == <<scores, classes, rowView>>
uiVars == <<currentQuestions, currentAnswers, inflight, reading, opCount, overlay, alert,
            questionsView, answersView, processingView, singleView, exported,
            last>>
caseVars == <<mainEntity, resultObject>>

vars == <<splitVars, bandVars, uiVars, caseVars>>

--------------------------------------------------------------------------
(* Bounds *)

MaxLen == 5
MaxScore == 100

--------------------------------------------------------------------------
(* Strings as token sequences *)

Min(S) == CHOOSE m \in S : \A n \in S : m <= n

BoundedSeq(S, n) == UNION {[1..k -> S] : k \in 0..n}

DropFirst(s, n) == SubSeq(s, n + 1, Len(s))

\* \s of a JavaScript regular expression, and what String.prototype.trim strips
IsSpace(t) == t \in {" ", "\n"}

\* a greedy \s* at the start of s: what is left after it
SkipSpaces(s) ==
    LET I == {i \in 1..Len(s) : ~IsSpace(s[i])}
    IN  IF I = {} THEN <<>> ELSE SubSeq(s, Min(I), Len(s))

\* String.prototype.trim
Trim(s) ==
    LET I == {i \in 1..Len(s) : ~IsSpace(s[i])}
    IN  IF I = {} THEN <<>>
        ELSE SubSeq(s, Min(I), CHOOSE m \in I : \A n \in I : n <= m)

\* s.replace(/\*\*/g, '')
RemoveMarkers(s) == SelectSeq(s, LAMBDA t : t # "**")

\* toLowerCase on the words the inputs use, for the patterns with the i flag
Lower(t) ==
    CASE t = "Hier ist die Antwort" -> "hier ist die antwort"
      [] t = "HIER IST DIE ANTWORT" -> "hier ist die antwort"
      [] t = "Hier finden Sie die Antwort" -> "hier finden sie die antwort"
      [] t = "Ich erstelle eine Antwort" -> "ich erstelle eine antwort"
      [] t = "Dies ist die Antwort" -> "dies ist die antwort"
      [] t = "Folgende Antwort" -> "folgende antwort"
      [] t = "Here is the answer" -> "here is the answer"
      [] t = "Here's a comprehensive answer" -> "here's a comprehensive answer"
      [] t = "I'll provide the answer" -> "i'll provide the answer"
      [] t = "This is the answer" -> "this is the answer"
      [] t = "Antwort" -> "antwort"
      [] t = "Basierend auf" -> "basierend auf"
      [] OTHER -> t

--------------------------------------------------------------------------
(* The pattern library of separateCommentAndAnswer *)

\* /^(LITERAL.*?(?:\.|:))\s*(.*)/s
Commentary(lit) == [lits |-> {<<lit>>}, groups |-> 2, ci |-> FALSE]

\* /^(LITERAL.*?(?:\.|:))\s*(.*)/si, LITERAL with alternatives; the literals
\* are written in lower case and compared with the lower-cased input
Announcement(lits) == [lits |-> {<<l>> : l \in lits}, groups |-> 2, ci |-> TRUE]

\* /^\*\*WORD\*\*\s*:?\s*(.*)/s
BoldHeader(word) == [lits |-> {<<"**", word, "**">>}, groups |-> 1, ci |-> FALSE]

\* /^WORD\s*:?\s*(.*)/s
PlainHeader(word) == [lits |-> {<<word>>}, groups |-> 1, ci |-> FALSE]

commentPatterns == <<
    \* German commentary patterns
    Commentary("Basierend auf"),
    Commentary("Aufgrund"),
    Commentary("Laut"),
    Commentary("Gemäß"),
    Commentary("Entsprechend"),
    Commentary("Unter Berücksichtigung"),
    Commentary("Nach"),
    Commentary("Anhand"),
    Commentary("Durch"),
    Commentary("Mit Blick auf"),
    \* English commentary patterns
    Commentary("Based on"),
    Commentary("According to"),
    Commentary("From the historical data"),
    Commentary("Our previous experience shows"),
    Commentary("The sources indicate"),
    Commentary("Looking at similar projects"),
    \* German AI response patterns
    Announcement({"hier ist die antwort", "hier ist eine antwort",
                  "hier ist die umfassende antwort", "hier ist eine umfassende antwort"}),
    Announcement({"hier finden sie die antwort", "hier finden sie eine antwort",
                  "hier finden sie die umfassende antwort",
                  "hier finden sie eine umfassende antwort"}),
    Announcement({"ich erstelle eine antwort", "ich erstelle die antwort",
                  "ich erstelle eine umfassende antwort",
                  "ich erstelle die umfassende antwort"}),
    Announcement({"dies ist die antwort", "dies ist eine antwort",
                  "dies ist die umfassende antwort", "dies ist eine umfassende antwort"}),
    Announcement({"folgende antwort"}),
    \* English AI response patterns
    Announcement({"here is the answer", "here is a answer",
                  "here is the comprehensive answer", "here is a comprehensive answer"}),
    Announcement({"here's the answer", "here's a answer",
                  "here's the comprehensive answer", "here's a comprehensive answer"}),
    Announcement({"i'll provide a answer", "i'll provide the answer",
                  "i'll provide a comprehensive answer",
                  "i'll provide the comprehensive answer"}),
    Announcement({"this is the answer", "this is a answer",
                  "this is the comprehensive answer", "this is a comprehensive answer"}),
    \* German markdown formatting
    BoldHeader("Antwort"),
    BoldHeader("Lösung"),
    PlainHeader("Antwort"),
    PlainHeader("Lösung"),
    \* English markdown formatting
    BoldHeader("Answer"),
    BoldHeader("Response"),
    PlainHeader("Answer"),
    PlainHeader("Response")
>>

\* the literal of a pattern at the start of s
StartsWith(s, lit, ci) ==
    /\ Len(s) >= Len(lit)
    /\ \A i \in 1..Len(lit) :
          IF ci THEN Lower(s[i]) = lit[i] ELSE s[i] = lit[i]

NoMatch == [matched |-> FALSE, g1 |-> <<>>, g2 |-> <<>>]

\* workingText.match(pattern): whether it matches, and match[1] and match[2].
\* A group that is undefined is <<>>, which the code tells from "" nowhere.
Match(pattern, s) ==
    LET lits == {l \in pattern.lits : StartsWith(s, l, pattern.ci)}
    IN  IF lits = {} THEN NoMatch
        ELSE LET n == Len(CHOOSE l \in lits : TRUE)
             IN  IF pattern.groups = 2
                 THEN \* (LITERAL.*?(?:\.|:)) ends at the first "." or ":"
                      LET T == {i \in (n + 1)..Len(s) : s[i] \in {".", ":"}}
                      IN  IF T = {} THEN NoMatch
                          ELSE [matched |-> TRUE,
                                g1 |-> SubSeq(s, 1, Min(T)),
                                g2 |-> SkipSpaces(DropFirst(s, Min(T)))]
                 ELSE \* LITERAL\s*:?\s*(.*)
                      LET r1 == SkipSpaces(DropFirst(s, n))
                          r2 == IF r1 # <<>> /\ r1[1] = ":" THEN Tail(r1) ELSE r1
                      IN  [matched |-> TRUE, g1 |-> SkipSpaces(r2), g2 |-> <<>>]

--------------------------------------------------------------------------
(* separateCommentAndAnswer *)

\* the body of "if (match)" without the two trims of workingText and the
\* trim of the comment
ApplyMatchUntrimmed(st, m, i) ==
    LET cleanComment == RemoveMarkers(m.g1)
    IN  [comments |-> IF m.g1 # <<>> /\ cleanComment # <<>>
                      THEN Append(st.comments, cleanComment)
                      ELSE st.comments,
         workingText |-> IF m.g2 # <<>> THEN m.g2 ELSE m.g1,
         applied |-> Append(st.applied, i)]

\* the body of "if (match)": the comment is pushed, workingText replaced,
\* and the number of the pattern recorded
ApplyMatch(st, m, i) ==
    LET cleanComment == Trim(RemoveMarkers(m.g1))
    IN  [comments |-> IF m.g1 # <<>> /\ cleanComment # <<>>
                      THEN Append(st.comments, cleanComment)
                      ELSE st.comments,
         workingText |-> IF m.g2 # <<>> THEN Trim(m.g2) ELSE Trim(m.g1),
         applied |-> Append(st.applied, i)]

\* a loop that goes on with the next pattern after a match
RECURSIVE PatternLoopNoBreak(_, _)
PatternLoopNoBreak(i, st) ==
    IF i > Len(commentPatterns) THEN st
    ELSE LET m == Match(commentPatterns[i], st.workingText)
         IN  IF m.matched
             THEN PatternLoopNoBreak(i + 1, ApplyMatch(st, m, i))
             ELSE PatternLoopNoBreak(i + 1, st)

\* for (const pattern of commentPatterns), from pattern i on
RECURSIVE PatternLoop(_, _)
PatternLoop(i, st) ==
    IF i > Len(commentPatterns) THEN st
    ELSE LET m == Match(commentPatterns[i], st.workingText)
         IN  IF m.matched
             THEN ApplyMatch(st, m, i)     \* break
             ELSE PatternLoop(i + 1, st)

\* where the bold span that opens at s[1] closes: the first "**" after it
\* on the same line ("." does not match a line break), or 0
ClosingMarker(s) ==
    LET I == {i \in 2..Len(s) : s[i] \in {"**", "\n"}}
    IN  IF Len(s) >= 2 /\ s[1] = "**" /\ I # {} /\ s[Min(I)] = "**"
        THEN Min(I) ELSE 0

\* a clean-up that deletes the leading bold span with its text only when a
\* colon follows it: /^\*\*.*?\*\*\s*:\s*/
StripLabelWithColon(s) ==
    IF ClosingMarker(s) = 0 THEN s
    ELSE LET r1 == SkipSpaces(DropFirst(s, ClosingMarker(s)))
         IN  IF r1 # <<>> /\ r1[1] = ":" THEN SkipSpaces(Tail(r1)) ELSE s

\* .replace(/^\*\*.*?\*\*\s*:?\s*/g, '')
StripLeadingHeader(s) ==
    IF ClosingMarker(s) = 0 THEN s
    ELSE LET r1 == SkipSpaces(DropFirst(s, ClosingMarker(s)))
             r2 == IF r1 # <<>> /\ r1[1] = ":" THEN Tail(r1) ELSE r1
         IN  SkipSpaces(r2)

\* the replacement without the g flag: the first bold span only
RemoveBoldOnce(s) ==
    LET I == {i \in 1..Len(s) : ClosingMarker(DropFirst(s, i - 1)) # 0}
    IN  IF I = {} THEN s
        ELSE LET i == Min(I)
                 k == ClosingMarker(DropFirst(s, i - 1))
             IN  SubSeq(s, 1, i - 1) \o SubSeq(s, i + 1, i + k - 2)
                    \o DropFirst(s, i + k - 1)

\* .replace(/\*\*(.*?)\*\*/g, '$1')
RECURSIVE RemoveBold(_)
RemoveBold(s) ==
    IF s = <<>> THEN <<>>
    ELSE IF ClosingMarker(s) # 0
         THEN SubSeq(s, 2, ClosingMarker(s) - 1)
                 \o RemoveBold(DropFirst(s, ClosingMarker(s)))
         ELSE <<Head(s)>> \o RemoveBold(Tail(s))

\* the clean-up without its final trim
CleanAnswerUntrimmed(workingText) == RemoveBold(StripLeadingHeader(workingText))

\* the clean-up of the working text: cleanAnswer
CleanAnswer(workingText) == Trim(RemoveBold(StripLeadingHeader(workingText)))

\* comments.join(' ')
RECURSIVE Join(_)
Join(comments) ==
    IF comments = <<>> THEN <<>>
    ELSE IF Len(comments) = 1 THEN comments[1]
    ELSE comments[1] \o <<" ">> \o Join(Tail(comments))

\* a splitter that falls back to the working text when the clean answer is
\* empty (cleanAnswer || workingText)
separateWithFallback(text) ==
    LET st == PatternLoop(1, [comments |-> <<>>, workingText |-> text,
                              applied |-> <<>>])
    IN  [comment |-> Join(st.comments),
         answer |-> IF CleanAnswer(st.workingText) # <<>>
                    THEN CleanAnswer(st.workingText) ELSE st.workingText,
         workingText |-> st.workingText,
         applied |-> st.applied]

\* The value returned, with the working text and the patterns applied kept
\* beside it.
separateCommentAndAnswer(text) ==
    LET st == PatternLoop(1, [comments |-> <<>>, workingText |-> text,
                              applied |-> <<>>])
    IN  [comment |-> Join(st.comments),
         answer |-> CleanAnswer(st.workingText),
         workingText |-> st.workingText,
         applied |-> st.applied]

--------------------------------------------------------------------------
(* getConfidenceClass, getFuzzyClass and the lines of displayAnswers that use them *)

HighConfidence == 70
MediumConfidence == 40
HighFuzzy == 80
MediumFuzzy == 60

\* the bands with exclusive lower bounds
getConfidenceClassExclusive(score) ==
    IF score > HighConfidence THEN "high"
    ELSE IF score > MediumConfidence THEN "medium"
    ELSE "low"

getConfidenceClass(score) ==
    IF score >= HighConfidence THEN "high"
    ELSE IF score >= MediumConfidence THEN "medium"
    ELSE "low"

getFuzzyClass(score) ==
    IF score >= HighFuzzy THEN "high"
    ELSE IF score >= MediumFuzzy THEN "medium"
    ELSE "low"

\* both lines classified by the confidence score
ConfidenceLinesOneSignal(answer) ==
    [vectorClass |-> getConfidenceClass(answer.confidence_score),
     vectorShown |-> answer.confidence_score,
     textClass |-> getFuzzyClass(answer.confidence_score),
     textShown |-> answer.fuzzy_score]

\* the two <div class="confidence ..."> of an answer item: the class and the
\* score each shows
ConfidenceLines(answer) ==
    [vectorClass |-> getConfidenceClass(answer.confidence_score),
     vectorShown |-> answer.confidence_score,
     textClass |-> getFuzzyClass(answer.fuzzy_score),
     textShown |-> answer.fuzzy_score]

--------------------------------------------------------------------------
(* The page: alerts, views *)

NoAlert == [type |-> "none", message |-> <<>>]
NoBody == [format |-> "none", fields |-> {}, nullFields |-> {},
           question |-> <<>>, context |-> <<>>, category |-> "",
           questions |-> <<>>]

Request(kind, method, endpoint, body) ==
    [kind |-> kind, method |-> method, endpoint |-> endpoint, body |-> body]

\* no request: the step was a call, or the timer of an alert
NoRequest == Request("none", "", "", NoBody)

NoInput == [question |-> <<>>, context |-> <<>>, category |-> ""]

NoContent ==
    [answer |-> <<>>,
     lines |-> [vectorClass |-> "none", vectorShown |-> 0,
                textClass |-> "none", textShown |-> 0],
     sources |-> <<>>]
NoEntity == [isNull |-> TRUE]

--------------------------------------------------------------------------
(* The inputs *)

Alphabet == {"Basierend auf", "Antwort", "**", ":", ".", " ", "\n", "Ja"}

\* the examples of the specification
ExamplePreamble ==
    <<"Basierend auf", " ", "unseren Erfahrungen", ":", " ",
      "Die Lieferzeit beträgt 4 Wochen", ".">>
ExampleHeader == <<"**", "Antwort", "**", ":", " ", "Ja, das ist möglich", ".">>
ExamplePlain == <<"Die Antwort lautet 42", ".">>

\* one input for each pattern of the library, in its order
PatternSamples == <<
    "Basierend auf", "Aufgrund", "Laut", "Gemäß", "Entsprechend",
    "Unter Berücksichtigung", "Nach", "Anhand", "Durch", "Mit Blick auf",
    "Based on", "According to", "From the historical data",
    "Our previous experience shows", "The sources indicate",
    "Looking at similar projects",
    "HIER IST DIE ANTWORT", "Hier finden Sie die Antwort",
    "Ich erstelle eine Antwort", "Dies ist die Antwort", "Folgende Antwort",
    "Here is the answer", "Here's a comprehensive answer",
    "I'll provide the answer", "This is the answer",
    "Antwort", "Lösung", "Antwort", "Lösung",
    "Answer", "Response", "Answer", "Response" >>

SampleOf(i) ==
    (IF \E l \in commentPatterns[i].lits : Len(l) > 1
     THEN <<"**", PatternSamples[i], "**">>
     ELSE <<PatternSamples[i]>>) \o <<" ", "x", ":", " ", "Ja">>

Examples ==
    {ExamplePreamble, ExampleHeader, ExamplePlain}
    \cup {SampleOf(i) : i \in 1..Len(commentPatterns)}
    \cup { <<"basierend auf", ":", "Ja">>, <<"antwort", ":", "Ja">>,
           <<"Basierend auf", " ", "x", ":", " ", "Antwort", ":", " ", "Ja">>,
           <<"Ja", " ", "**", "x", "**", " ", "**", "x", "**">>,
           <<"**", "x", "**", " ", "Ja", " ", "**", "x", "**">> }

Inputs == BoundedSeq(Alphabet, MaxLen) \cup Examples

--------------------------------------------------------------------------
(* The harness of the splitter: one call, then the same call or the       *)
(* clean-up alone on what it returned                                     *)

\* the page as the script finds it when it is loaded
PageLoaded ==
    /\ currentQuestions = <<>>
    /\ currentAnswers = <<>>
    /\ inflight = <<>>
    /\ reading = <<>>
    /\ opCount = 0
    /\ overlay = FALSE
    /\ alert = NoAlert
    /\ questionsView = [shown |-> FALSE, items |-> <<>>]
    /\ answersView = [shown |-> FALSE, items |-> <<>>]
    /\ processingView = [shown |-> FALSE, items |-> <<>>, summary |-> FALSE]
    /\ singleView = [shown |-> FALSE, content |-> NoContent]
    /\ exported = <<>>
    /\ last = [op |-> "loaded", kind |-> "none", questions |-> <<>>,
               outcome |-> "none", input |-> NoInput]

\* no case, and the script not run
NoCase ==
    /\ mainEntity = NoEntity
    /\ resultObject = [ran |-> FALSE, errors |-> <<>>, warnings |-> <<>>,
                       failure |-> FALSE, rollback |-> FALSE]

NoResult == [comment |-> <<>>, answer |-> <<>>, workingText |-> <<>>,
             applied |-> <<>>]

InitSplit ==
    /\ fullAnswer \in Inputs
    /\ stage = "input"
    /\ result = NoResult
    /\ previous = NoResult
    /\ scores = [confidence_score |-> 0, fuzzy_score |-> 0]
    /\ classes = [confidence |-> "none", fuzzy |-> "none"]
    /\ rowView = [vectorClass |-> "none", vectorShown |-> 0,
                  textClass |-> "none", textShown |-> 0]
    /\ PageLoaded
    /\ NoCase

\* separateCommentAndAnswer(fullAnswer)
Split ==
    /\ stage = "input"
    /\ stage' = "split"
    /\ result' = separateCommentAndAnswer(fullAnswer)
    /\ previous' = result
    /\ UNCHANGED <<fullAnswer, bandVars, uiVars, caseVars>>

\* separateCommentAndAnswer on the answer the first call returned
Resplit ==
    /\ stage = "split"
    /\ stage' = "resplit"
    /\ result' = separateCommentAndAnswer(result.answer)
    /\ previous' = result
    /\ UNCHANGED <<fullAnswer, bandVars, uiVars, caseVars>>

\* the clean-up of lines 616-620 on fullAnswer as the working text
Clean ==
    /\ stage = "input"
    /\ stage' = "clean"
    /\ result' = [NoResult EXCEPT !.workingText = fullAnswer,
                                  !.answer = CleanAnswer(fullAnswer)]
    /\ previous' = result
    /\ UNCHANGED <<fullAnswer, bandVars, uiVars, caseVars>>

\* the clean-up on its own output
CleanAgain ==
    /\ stage = "clean"
    /\ stage' = "reclean"
    /\ result' = [NoResult EXCEPT !.workingText = result.answer,
                                  !.answer = CleanAnswer(result.answer)]
    /\ previous' = result
    /\ UNCHANGED <<fullAnswer, bandVars, uiVars, caseVars>>

NextSplit == Split \/ Resplit \/ Clean \/ CleanAgain

SpecSplit == InitSplit /\ [][NextSplit]_vars

--------------------------------------------------------------------------
(* The harness of the bands: the two classifiers on one answer's scores,  *)
(* and the lines displayAnswers renders for it                            *)

InitBands ==
    /\ scores \in [confidence_score : 0..MaxScore, fuzzy_score : 0..MaxScore]
    /\ classes = [confidence |-> "none", fuzzy |-> "none"]
    /\ rowView = [vectorClass |-> "none", vectorShown |-> 0,
                  textClass |-> "none", textShown |-> 0]
    /\ fullAnswer = <<>>
    /\ stage = "bands"
    /\ result = NoResult
    /\ previous = NoResult
    /\ PageLoaded
    /\ NoCase

Classify ==
    /\ classes.confidence = "none"
    /\ classes' = [confidence |-> getConfidenceClass(scores.confidence_score),
                   fuzzy |-> getFuzzyClass(scores.fuzzy_score)]
    /\ UNCHANGED <<scores, rowView, splitVars, uiVars, caseVars>>

DisplayAnswer ==
    /\ rowView.vectorClass = "none"
    /\ rowView' = ConfidenceLines(scores)
    /\ UNCHANGED <<scores, classes, splitVars, uiVars, caseVars>>

NextBands == Classify \/ DisplayAnswer

SpecBands == InitBands /\ [][NextBands]_vars

--------------------------------------------------------------------------
(* The page of script.js: what the server answers                         *)

MaxQuestions == 2
MaxOps == 3

Questions == {"Frage 1", "Frage 2"}
QuestionLists == BoundedSeq(Questions, MaxQuestions)

\* An AnswerResult for a question (spec.md, section 3): the question, the
\* generated text, the two scores and the sources.
AnswerResult(q) ==
    IF q = "Frage 1"
    THEN [question |-> q, answer |-> ExamplePreamble,
          confidence_score |-> 75, fuzzy_score |-> 50,
          sources |-> <<[question_text |-> "Wie lange ist die Lieferzeit?",
                         category |-> "timeline"]>>]
    ELSE [question |-> q, answer |-> ExamplePlain,
          confidence_score |-> 10, fuzzy_score |-> 85,
          sources |-> <<>>]

\* A failure marker (spec.md, section 3): the question index and an error
\* description.
FailureMarker(i) == [index |-> i, error |-> "GenerationError"]

\* What /generate-answers returns for a list of questions (spec.md, 4.6):
\* one outcome for each question, in the order of the questions.
BatchResults(questions) ==
    {r \in [1..Len(questions) ->
               {AnswerResult(q) : q \in Questions}
                  \cup {FailureMarker(i) : i \in 1..Len(questions)}] :
        \A i \in 1..Len(questions) :
            r[i] \in {AnswerResult(questions[i]), FailureMarker(i)}}

\* how await fetch(...) ends without a response that is ok: it resolves
\* with a response that is not ok, or it rejects
FetchFailures == {[kind |-> "http", status |-> "500"],
                  [kind |-> "network", status |-> ""]}

\* how await response.json() ends: with the parsed body, or it rejects
JsonOutcomes == {[kind |-> "ok", status |-> "200"],
                 [kind |-> "parse", status |-> "200"]}

\* how await response.blob() ends: with the body, or it rejects
BlobOutcomes == {[kind |-> "ok", status |-> "200"],
                 [kind |-> "read", status |-> "200"]}

\* error.message in the catch block
ErrorMessage(outcome) ==
    CASE outcome.kind = "network" -> "Failed to fetch"
      [] outcome.kind = "http" -> "HTTP error! status: 500"
      [] outcome.kind = "parse" -> "Unexpected token < in JSON at position 0"
      [] OTHER -> "network error"

--------------------------------------------------------------------------
(* The page of script.js: requests, views and handlers                    *)

\* the sequence without its i-th element
Without(seq, i) == SubSeq(seq, 1, i - 1) \o DropFirst(seq, i)

\* the step is noted: the kind of the request whose promise settled, the
\* questions it submitted, and how the promise settled
Note(op, request, outcome) ==
    last' = [op |-> op, kind |-> request.kind,
             questions |-> request.body.questions, outcome |-> outcome,
             input |-> NoInput]

\* generateSingleAnswer is noted with the values it read from the form
NoteInput(op, question, context, category) ==
    last' = [op |-> op, kind |-> "none", questions |-> <<>>, outcome |-> "none",
             input |-> [question |-> question, context |-> context,
                        category |-> category]]

\* showAlert(message, type); the message is prefix + detail
Alert(type, prefix, detail) == [type |-> type, message |-> <<prefix, detail>>]

\* an answer item of displayAnswers
AnswerItem(answer, index, questions) ==
    [label |-> index,
     question |-> IF index <= Len(questions) THEN questions[index] ELSE "undefined",
     answer |-> answer.answer,
     lines |-> ConfidenceLines(answer),
     sourceCount |-> Len(answer.sources),
     sources |-> [k \in 1..(IF Len(answer.sources) > 3 THEN 3
                            ELSE Len(answer.sources)) |->
                     answer.sources[k].question_text]]

\* displayAnswers(answers): the items appended to the emptied container,
\* and whether the loop threw before line 211 (an element without sources:
\* answer.sources.length is a TypeError)
displayAnswers(answers, questions) ==
    LET T == {i \in 1..Len(answers) : "sources" \notin DOMAIN answers[i]}
        n == IF T = {} THEN Len(answers) ELSE Min(T) - 1
    IN  [threw |-> T # {},
         items |-> [i \in 1..n |-> AnswerItem(answers[i], i, questions)]]

\* formatSourcesForExcel(sources)
formatSourcesForExcel(sources) ==
    IF sources = <<>>
    THEN << [label |-> "Keine Quellen", number |-> 0, text |-> ""] >>
    ELSE [k \in 1..Len(sources) |->
             [label |-> "Source", number |-> k, text |-> sources[k].question_text]]

\* a row of the Excel sheet for currentAnswers[index]
ExcelRow(answer, index, questions) ==
    LET split == separateCommentAndAnswer(answer.answer)
    IN  [question |-> IF index <= Len(questions) THEN questions[index]
                      ELSE "undefined",
         comment |-> split.comment,
         answer |-> split.answer,
         confidence |-> answer.confidence_score,
         fuzzy |-> answer.fuzzy_score,
         sources |-> formatSourcesForExcel(answer.sources)]

\* the loop of exportAnswers: the rows under the header row, or a TypeError
\* (separateCommentAndAnswer of an element without answer) that leaves the
\* handler before a file is written
ExcelRows(answers, questions) ==
    IF \E i \in 1..Len(answers) : "answer" \notin DOMAIN answers[i]
    THEN [threw |-> TRUE, rows |-> <<>>]
    ELSE [threw |-> FALSE,
          rows |-> [i \in 1..Len(answers) |-> ExcelRow(answers[i], i, questions)]]

\* displaySingleAnswer(answer): the content and sources written to the
\* result area
displaySingleAnswer(answer) ==
    [answer |-> answer.answer,
     lines |-> ConfidenceLines(answer),
     sources |-> [k \in 1..Len(answer.sources) |-> answer.sources[k].question_text]]

\* a body that is JSON whatever the category
SingleBodyAlwaysJson(question, context, category) ==
    [format |-> "json",
     fields |-> {"question", "context"},
     nullFields |-> IF context # <<>> THEN {} ELSE {"context"},
     question |-> question, context |-> context, category |-> "",
     questions |-> <<>>]

\* the body generateSingleAnswer sends for a trimmed question and context
SingleBody(question, context, category) ==
    IF category # ""
    THEN [format |-> "form",
          fields |-> {"question", "category"}
                        \cup (IF context # <<>> THEN {"context"} ELSE {}),
          nullFields |-> {},
          question |-> question, context |-> context, category |-> category,
          questions |-> <<>>]
    ELSE [format |-> "json",
          fields |-> {"question", "context"},
          nullFields |-> IF context # <<>> THEN {} ELSE {"context"},
          question |-> question, context |-> context, category |-> "",
          questions |-> <<>>]

SingleEndpoint(category) ==
    IF category # "" THEN "/generate-answer-by-category" ELSE "/generate-answer"

\* an upload that stores the body of whatever response arrived
UploadDoneNoStatusCheck(outcome, questions) ==
    [currentQuestions |-> IF outcome.kind = "network" THEN currentQuestions
                          ELSE questions,
     questionsView |-> questionsView,
     alert |-> IF outcome.kind = "ok" THEN alert
               ELSE Alert("error", "Fehler beim Hochladen der Excel-Datei: ",
                          ErrorMessage(outcome)),
     event |-> IF outcome.kind = "ok" THEN "uploadDone" ELSE "uploadFailed"]

\* try/catch of handleExcelUpload once fetch has settled
UploadDone(outcome, questions) ==
    IF outcome.kind = "ok"
    THEN [currentQuestions |-> questions,
          questionsView |-> [shown |-> TRUE, items |-> questions],
          alert |-> alert, event |-> "uploadDone"]
    ELSE [currentQuestions |-> currentQuestions,
          questionsView |-> questionsView,
          alert |-> Alert("error", "Fehler beim Hochladen der Excel-Datei: ",
                          ErrorMessage(outcome)),
          event |-> "uploadFailed"]

\* try/catch of generateAllAnswers once fetch has settled
GenerateAllDone(outcome, answers) ==
    IF outcome.kind = "ok"
    THEN LET drawn == displayAnswers(answers, currentQuestions)
         IN  [currentAnswers |-> answers,
              answersView |-> [shown |-> answersView.shown \/ ~drawn.threw,
                               items |-> drawn.items],
              alert |-> IF drawn.threw
                        THEN Alert("error", "Fehler beim Generieren der Antworten: ",
                                   "Cannot read properties of undefined (reading 'length')")
                        ELSE alert,
              event |-> IF drawn.threw THEN "generateAllDisplayFailed"
                        ELSE "generateAllDone"]
    ELSE [currentAnswers |-> currentAnswers,
          answersView |-> answersView,
          alert |-> Alert("error", "Fehler beim Generieren der Antworten: ",
                          ErrorMessage(outcome)),
          event |-> "generateAllFailed"]

\* a handler that shows the body of whatever response arrived
SingleDoneNoStatusCheck(outcome, answer) ==
    IF outcome.kind # "network"
    THEN [singleView |-> [shown |-> TRUE, content |-> displaySingleAnswer(answer)],
          alert |-> alert,
          event |-> IF outcome.kind = "ok" THEN "singleDone" ELSE "singleFailed"]
    ELSE [singleView |-> singleView,
          alert |-> Alert("error", "Fehler beim Generieren der Antwort: ",
                          ErrorMessage(outcome)),
          event |-> "singleFailed"]

\* try/catch of generateSingleAnswer once fetch has settled
SingleDone(outcome, answer) ==
    IF outcome.kind = "ok"
    THEN [singleView |-> [shown |-> TRUE, content |-> displaySingleAnswer(answer)],
          alert |-> alert, event |-> "singleDone"]
    ELSE [singleView |-> singleView,
          alert |-> Alert("error", "Fehler beim Generieren der Antwort: ",
                          ErrorMessage(outcome)),
          event |-> "singleFailed"]

\* displayProcessingResults(results)
displayProcessingResults(results) ==
    [shown |-> TRUE,
     items |-> [k \in 1..Len(results) |->
                   [class |-> IF results[k].status = "success" THEN "success"
                              ELSE "error",
                    file_name |-> results[k].file_name]],
     summary |-> \E k \in 1..Len(results) :
                    results[k].status = "success" /\ results[k].qa_pairs_extracted > 0]

--------------------------------------------------------------------------
(* The page of script.js as a state machine. A handler that awaits is     *)
(* several steps: the part up to await fetch, which leaves a request in   *)
(* flight; the part that runs when fetch settles, which for a response    *)
(* that is ok goes on to await its body; and the part that runs when the  *)
(* body has been read. Other handlers run between these steps.            *)
(* The statistics panel, the category list and the files the browser      *)
(* saves for downloadTemplate are not part of the state.                  *)

QuestionInputs == {<<>>, <<" ">>, <<" ", "Frage 2", "\n">>}
ContextInputs == {<<" ">>, <<" ", "Kontext">>}
Categories == {"", "pricing"}

\* what /generate-answer returns for the question of QuestionInputs
SingleAnswer == AnswerResult("Frage 2")

ProcessingResults ==
    {<<[file_name |-> "alt.xlsx", status |-> "success", qa_pairs_extracted |-> 2],
       [file_name |-> "leer.pdf", status |-> "error", qa_pairs_extracted |-> 0]>>}

Init ==
    /\ PageLoaded
    /\ NoCase
    /\ fullAnswer = <<>>
    /\ stage = "page"
    /\ result = NoResult
    /\ previous = NoResult
    /\ scores = [confidence_score |-> 0, fuzzy_score |-> 0]
    /\ classes = [confidence |-> "none", fuzzy |-> "none"]
    /\ rowView = [vectorClass |-> "none", vectorShown |-> 0,
                  textClass |-> "none", textShown |-> 0]

otherVars == <<splitVars, bandVars, caseVars>>

\* a handler is called
Called ==
    /\ stage = "page"
    /\ opCount < MaxOps
    /\ opCount' = opCount + 1

\* the handler sends a request and awaits fetch
Sends(request) ==
    /\ inflight' = Append(inflight, request)
    /\ reading' = reading

\* await fetch(...) of the i-th request in flight resolves with a response
\* that is ok: the handler goes on to await the body
Responds(i, kind) ==
    /\ stage = "page"
    /\ i \in 1..Len(inflight)
    /\ inflight[i].kind = kind
    /\ inflight' = Without(inflight, i)
    /\ reading' = Append(reading, inflight[i])
    /\ opCount' = opCount

\* await fetch(...) of the i-th request in flight rejects, or resolves with
\* a response that is not ok
FetchFails(i, kind) ==
    /\ stage = "page"
    /\ i \in 1..Len(inflight)
    /\ inflight[i].kind = kind
    /\ inflight' = Without(inflight, i)
    /\ reading' = reading
    /\ opCount' = opCount

\* the await of the body of the j-th response being read settles
BodySettles(j, kind) ==
    /\ stage = "page"
    /\ j \in 1..Len(reading)
    /\ reading[j].kind = kind
    /\ reading' = Without(reading, j)
    /\ inflight' = inflight
    /\ opCount' = opCount

\* handleExcelUpload without a file
UploadNoFile ==
    /\ Called
    /\ Note("uploadNoFile", NoRequest, "none")
    /\ UNCHANGED <<currentQuestions, currentAnswers, inflight, reading,
                   overlay, alert, questionsView, answersView, processingView,
                   singleView, exported, otherVars>>

\* handleExcelUpload with a file, up to await fetch
UploadStart ==
    /\ Called
    /\ overlay' = TRUE
    /\ Sends(Request("upload", "POST", "/upload-client-questions",
                     [NoBody EXCEPT !.format = "form", !.fields = {"file"}]))
    /\ Note("uploadStarted", NoRequest, "none")
    /\ UNCHANGED <<currentQuestions, currentAnswers, alert, questionsView,
                   answersView, processingView, singleView, exported, otherVars>>

\* handleExcelUpload: fetch resolves ok, up to await response.json()
UploadResponds ==
    \E i \in 1..Len(inflight) :
        /\ Responds(i, "upload")
        /\ Note("uploadResponded", inflight[i], "responded")
        /\ UNCHANGED <<currentQuestions, currentAnswers, overlay, alert,
                       questionsView, answersView, processingView, singleView, exported,
                       otherVars>>

\* handleExcelUpload: fetch fails; catch and finally
UploadFetchFails ==
    \E i \in 1..Len(inflight), outcome \in FetchFailures :
        LET done == UploadDone(outcome, <<>>)
        IN  /\ FetchFails(i, "upload")
            /\ currentQuestions' = done.currentQuestions
            /\ questionsView' = done.questionsView
            /\ alert' = done.alert
            /\ overlay' = FALSE
            /\ Note(done.event, inflight[i], outcome.kind)
            /\ UNCHANGED <<currentAnswers, answersView, processingView,
                           singleView, exported, otherVars>>

\* handleExcelUpload after await response.json()
UploadSettles ==
    \E j \in 1..Len(reading), outcome \in JsonOutcomes :
      \E questions \in IF outcome.kind = "ok" THEN QuestionLists ELSE {<<>>} :
        LET done == UploadDone(outcome, questions)
        IN  /\ BodySettles(j, "upload")
            /\ currentQuestions' = done.currentQuestions
            /\ questionsView' = done.questionsView
            /\ alert' = done.alert
            /\ overlay' = FALSE
            /\ Note(done.event, reading[j], outcome.kind)
            /\ UNCHANGED <<currentAnswers, answersView, processingView,
                           singleView, exported, otherVars>>

\* generateAllAnswers without questions
GenerateAllEmpty ==
    /\ Called
    /\ currentQuestions = <<>>
    /\ alert' = Alert("warning", "Keine Fragen zum Verarbeiten vorhanden", "")
    /\ Note("generateAllEmpty", NoRequest, "none")
    /\ UNCHANGED <<currentQuestions, currentAnswers, inflight, reading,
                   overlay, questionsView, answersView, processingView, singleView,
                   exported, otherVars>>

\* generateAllAnswers with questions, up to await fetch
GenerateAllStart ==
    /\ Called
    /\ currentQuestions # <<>>
    /\ overlay' = TRUE
    /\ Sends(Request("generateAll", "POST", "/generate-answers",
                     [NoBody EXCEPT !.format = "json",
                                    !.fields = {"questions"},
                                    !.questions = currentQuestions]))
    /\ Note("generateAllStarted", NoRequest, "none")
    /\ UNCHANGED <<currentQuestions, currentAnswers, alert, questionsView,
                   answersView, processingView, singleView, exported, otherVars>>

\* generateAllAnswers: fetch resolves ok, up to await response.json()
GenerateAllResponds ==
    \E i \in 1..Len(inflight) :
        /\ Responds(i, "generateAll")
        /\ Note("generateAllResponded", inflight[i], "responded")
        /\ UNCHANGED <<currentQuestions, currentAnswers, overlay, alert,
                       questionsView, answersView, processingView, singleView, exported,
                       otherVars>>

\* generateAllAnswers: fetch fails; catch and finally
GenerateAllFetchFails ==
    \E i \in 1..Len(inflight), outcome \in FetchFailures :
        LET done == GenerateAllDone(outcome, <<>>)
        IN  /\ FetchFails(i, "generateAll")
            /\ currentAnswers' = done.currentAnswers
            /\ answersView' = done.answersView
            /\ alert' = done.alert
            /\ overlay' = FALSE
            /\ Note(done.event, inflight[i], outcome.kind)
            /\ UNCHANGED <<currentQuestions, questionsView, processingView,
                           singleView, exported, otherVars>>

\* generateAllAnswers after await response.json()
GenerateAllSettles ==
    \E j \in 1..Len(reading), outcome \in JsonOutcomes :
        \E answers \in IF outcome.kind = "ok"
                        THEN BatchResults(reading[j].body.questions) ELSE {<<>>} :
            LET done == GenerateAllDone(outcome, answers)
            IN  /\ BodySettles(j, "generateAll")
                /\ currentAnswers' = done.currentAnswers
                /\ answersView' = done.answersView
                /\ alert' = done.alert
                /\ overlay' = FALSE
                /\ Note(done.event, reading[j], outcome.kind)
                /\ UNCHANGED <<currentQuestions, questionsView,
                               processingView, singleView, exported, otherVars>>

\* exportAnswers without answers
ExportEmpty ==
    /\ Called
    /\ currentAnswers = <<>>
    /\ alert' = Alert("warning", "Keine Antworten zum Exportieren vorhanden", "")
    /\ Note("exportEmpty", NoRequest, "none")
    /\ UNCHANGED <<currentQuestions, currentAnswers, inflight, reading,
                   overlay, questionsView, answersView, processingView, singleView,
                   exported, otherVars>>

\* exportAnswers with answers: the file is written and the alert shown
\* unless the loop throws
ExportAnswers ==
    LET sheet == ExcelRows(currentAnswers, currentQuestions)
    IN  /\ Called
        /\ currentAnswers # <<>>
        /\ exported' = IF sheet.threw THEN exported ELSE Append(exported, sheet.rows)
        /\ alert' = IF sheet.threw THEN alert
                    ELSE Alert("success", "Excel-Datei erfolgreich exportiert", "")
        /\ Note(IF sheet.threw THEN "exportThrew" ELSE "exported", NoRequest, "none")
        /\ UNCHANGED <<currentQuestions, currentAnswers, inflight, reading,
                       overlay, questionsView, answersView, processingView, singleView,
                       otherVars>>

\* handleHistoricalUpload without files
HistoricalNoFiles ==
    /\ Called
    /\ Note("historicalNoFiles", NoRequest, "none")
    /\ UNCHANGED <<currentQuestions, currentAnswers, inflight, reading,
                   overlay, alert, questionsView, answersView, processingView,
                   singleView, exported, otherVars>>

\* handleHistoricalUpload with files, up to await fetch
HistoricalStart ==
    /\ Called
    /\ overlay' = TRUE
    /\ Sends(Request("historical", "POST", "/upload-historical-data",
                     [NoBody EXCEPT !.format = "form", !.fields = {"files"}]))
    /\ Note("historicalStarted", NoRequest, "none")
    /\ UNCHANGED <<currentQuestions, currentAnswers, alert, questionsView,
                   answersView, processingView, singleView, exported, otherVars>>

\* handleHistoricalUpload: fetch resolves ok, up to await response.json()
HistoricalResponds ==
    \E i \in 1..Len(inflight) :
        /\ Responds(i, "historical")
        /\ Note("historicalResponded", inflight[i], "responded")
        /\ UNCHANGED <<currentQuestions, currentAnswers, overlay, alert,
                       questionsView, answersView, processingView, singleView, exported,
                       otherVars>>

\* handleHistoricalUpload: fetch fails; catch and finally
HistoricalFetchFails ==
    \E i \in 1..Len(inflight), outcome \in FetchFailures :
        /\ FetchFails(i, "historical")
        /\ alert' = Alert("error", "Fehler beim Hochladen historischer Daten: ",
                          ErrorMessage(outcome))
        /\ overlay' = FALSE
        /\ Note("historicalFailed", inflight[i], outcome.kind)
        /\ UNCHANGED <<currentQuestions, currentAnswers, questionsView,
                       answersView, processingView, singleView, exported, otherVars>>

\* handleHistoricalUpload after await response.json()
HistoricalSettles ==
    \E j \in 1..Len(reading), outcome \in JsonOutcomes :
      \E results \in IF outcome.kind = "ok" THEN ProcessingResults ELSE {<<>>} :
        /\ BodySettles(j, "historical")
        /\ processingView' = IF outcome.kind = "ok"
                             THEN displayProcessingResults(results)
                             ELSE processingView
        /\ alert' = IF outcome.kind = "ok" THEN alert
                    ELSE Alert("error", "Fehler beim Hochladen historischer Daten: ",
                               ErrorMessage(outcome))
        /\ overlay' = FALSE
        /\ Note(IF outcome.kind = "ok" THEN "historicalDone" ELSE "historicalFailed",
                reading[j], outcome.kind)
        /\ UNCHANGED <<currentQuestions, currentAnswers, questionsView,
                       answersView, singleView, exported, otherVars>>

\* generateSingleAnswer with a question that is empty once trimmed; the
\* context and the category it has read are not used
SingleEmpty ==
    \E question \in QuestionInputs :
        /\ Called
        /\ Trim(question) = <<>>
        /\ alert' = Alert("warning", "Bitte geben Sie eine Frage ein", "")
        /\ NoteInput("singleEmpty", question, <<>>, "")
        /\ UNCHANGED <<currentQuestions, currentAnswers, inflight, reading,
                       overlay, questionsView, answersView, processingView, singleView,
                       exported, otherVars>>

\* generateSingleAnswer with a question, up to await fetch
SingleStart ==
    \E question \in QuestionInputs, context \in ContextInputs, category \in Categories :
        /\ Called
        /\ Trim(question) # <<>>
        /\ overlay' = TRUE
        /\ Sends(Request("single", "POST", SingleEndpoint(category),
                         SingleBody(Trim(question), Trim(context), category)))
        /\ NoteInput("singleStarted", question, context, category)
        /\ UNCHANGED <<currentQuestions, currentAnswers, alert,
                       questionsView, answersView, processingView, singleView, exported,
                       otherVars>>

\* generateSingleAnswer: fetch resolves ok, up to await response.json()
SingleResponds ==
    \E i \in 1..Len(inflight) :
        /\ Responds(i, "single")
        /\ Note("singleResponded", inflight[i], "responded")
        /\ UNCHANGED <<currentQuestions, currentAnswers, overlay, alert,
                       questionsView, answersView, processingView, singleView, exported,
                       otherVars>>

\* generateSingleAnswer: fetch fails; catch and finally
SingleFetchFails ==
    \E i \in 1..Len(inflight), outcome \in FetchFailures :
        LET done == SingleDone(outcome, SingleAnswer)
        IN  /\ FetchFails(i, "single")
            /\ singleView' = done.singleView
            /\ alert' = done.alert
            /\ overlay' = FALSE
            /\ Note(done.event, inflight[i], outcome.kind)
            /\ UNCHANGED <<currentQuestions, currentAnswers, questionsView,
                           answersView, processingView, exported, otherVars>>

\* generateSingleAnswer after await response.json()
SingleSettles ==
    \E j \in 1..Len(reading), outcome \in JsonOutcomes :
        LET done == SingleDone(outcome, SingleAnswer)
        IN  /\ BodySettles(j, "single")
            /\ singleView' = done.singleView
            /\ alert' = done.alert
            /\ overlay' = FALSE
            /\ Note(done.event, reading[j], outcome.kind)
            /\ UNCHANGED <<currentQuestions, currentAnswers, questionsView,
                           answersView, processingView, exported, otherVars>>

\* clearAllData when the confirm dialog is declined
ClearDeclined ==
    /\ Called
    /\ Note("clearDeclined", NoRequest, "none")
    /\ UNCHANGED <<currentQuestions, currentAnswers, inflight, reading,
                   overlay, alert, questionsView, answersView, processingView,
                   singleView, exported, otherVars>>

\* clearAllData when confirmed, up to await fetch
ClearStart ==
    /\ Called
    /\ overlay' = TRUE
    /\ Sends(Request("clear", "DELETE", "/clear-data", NoBody))
    /\ Note("clearStarted", NoRequest, "none")
    /\ UNCHANGED <<currentQuestions, currentAnswers, alert, questionsView,
                   answersView, processingView, singleView, exported, otherVars>>

\* clearAllData: fetch resolves ok, up to await response.json()
ClearResponds ==
    \E i \in 1..Len(inflight) :
        /\ Responds(i, "clear")
        /\ Note("clearResponded", inflight[i], "responded")
        /\ UNCHANGED <<currentQuestions, currentAnswers, overlay, alert,
                       questionsView, answersView, processingView, singleView, exported,
                       otherVars>>

\* clearAllData: fetch fails; catch and finally
ClearFetchFails ==
    \E i \in 1..Len(inflight), outcome \in FetchFailures :
        /\ FetchFails(i, "clear")
        /\ alert' = Alert("error", "Fehler beim Löschen der Daten: ",
                          ErrorMessage(outcome))
        /\ overlay' = FALSE
        /\ Note("clearFailed", inflight[i], outcome.kind)
        /\ UNCHANGED <<currentQuestions, currentAnswers, questionsView,
                       answersView, processingView, singleView, exported, otherVars>>

\* clearAllData after await response.json()
ClearSettles ==
    \E j \in 1..Len(reading), outcome \in JsonOutcomes :
        /\ BodySettles(j, "clear")
        /\ alert' = IF outcome.kind = "ok"
                    THEN Alert("success", "result.message", "")
                    ELSE Alert("error", "Fehler beim Löschen der Daten: ",
                               ErrorMessage(outcome))
        /\ overlay' = FALSE
        /\ Note(IF outcome.kind = "ok" THEN "clearDone" ELSE "clearFailed",
                reading[j], outcome.kind)
        /\ UNCHANGED <<currentQuestions, currentAnswers, questionsView,
                       answersView, processingView, singleView, exported, otherVars>>

\* downloadTemplate up to await fetch; it does not show the overlay
DownloadStart ==
    /\ Called
    /\ Sends(Request("download", "GET", "/download-template", NoBody))
    /\ Note("downloadStarted", NoRequest, "none")
    /\ UNCHANGED <<currentQuestions, currentAnswers, overlay, alert,
                   questionsView, answersView, processingView, singleView, exported,
                   otherVars>>

\* downloadTemplate: fetch resolves ok, up to await response.blob()
DownloadResponds ==
    \E i \in 1..Len(inflight) :
        /\ Responds(i, "download")
        /\ Note("downloadResponded", inflight[i], "responded")
        /\ UNCHANGED <<currentQuestions, currentAnswers, overlay, alert,
                       questionsView, answersView, processingView, singleView, exported,
                       otherVars>>

\* downloadTemplate: fetch fails; catch
DownloadFetchFails ==
    \E i \in 1..Len(inflight), outcome \in FetchFailures :
        /\ FetchFails(i, "download")
        /\ alert' = Alert("error", "Fehler beim Herunterladen der Vorlage: ",
                          ErrorMessage(outcome))
        /\ Note("downloadFailed", inflight[i], outcome.kind)
        /\ UNCHANGED <<currentQuestions, currentAnswers, overlay,
                       questionsView, answersView, processingView, singleView, exported,
                       otherVars>>

\* downloadTemplate after await response.blob()
DownloadSettles ==
    \E j \in 1..Len(reading), outcome \in BlobOutcomes :
        /\ BodySettles(j, "download")
        /\ alert' = IF outcome.kind = "ok"
                    THEN Alert("success", "Vorlage erfolgreich heruntergeladen", "")
                    ELSE Alert("error", "Fehler beim Herunterladen der Vorlage: ",
                               ErrorMessage(outcome))
        /\ Note(IF outcome.kind = "ok" THEN "downloadDone" ELSE "downloadFailed",
                reading[j], outcome.kind)
        /\ UNCHANGED <<currentQuestions, currentAnswers, overlay,
                       questionsView, answersView, processingView, singleView, exported,
                       otherVars>>

\* the timer of showAlert removes the alert
AlertExpires ==
    /\ stage = "page"
    /\ alert # NoAlert
    /\ alert' = NoAlert
    /\ opCount' = opCount
    /\ Note("alertExpired", NoRequest, "none")
    /\ UNCHANGED <<currentQuestions, currentAnswers, inflight, reading,
                   overlay, questionsView, answersView, processingView, singleView,
                   exported, otherVars>>

Next ==
    \/ UploadNoFile \/ UploadStart \/ UploadResponds \/ UploadFetchFails
    \/ UploadSettles
    \/ GenerateAllEmpty \/ GenerateAllStart \/ GenerateAllResponds
    \/ GenerateAllFetchFails \/ GenerateAllSettles
    \/ ExportEmpty \/ ExportAnswers
    \/ HistoricalNoFiles \/ HistoricalStart \/ HistoricalResponds
    \/ HistoricalFetchFails \/ HistoricalSettles
    \/ SingleEmpty \/ SingleStart \/ SingleResponds \/ SingleFetchFails
    \/ SingleSettles
    \/ ClearDeclined \/ ClearStart \/ ClearResponds \/ ClearFetchFails
    \/ ClearSettles
    \/ DownloadStart \/ DownloadResponds \/ DownloadFetchFails \/ DownloadSettles
    \/ AlertExpires

Spec == Init /\ [][Next]_vars

--------------------------------------------------------------------------
(* The case-closure verification script (src/unnamed/part_000)            *)

MaxItems == 2
MaxEnvelopes == 2

\* a field value that is null
Null == "<null>"

ErrOpenTasks ==
    "Das Geschäft kann nicht auf 'Erledigt' gesetzt werden, da es noch offene Workflow-Aufgaben gibt. Bitte schliessen Sie zuerst alle Workflow-Aufgaben ab."
WarnEmail ==
    "Bitte jetzt prüfen, ob eine E-Mail an den Gesuchstellenden zugestellt wurde."
ErrNoEnvelope ==
    "Das Geschäft kann nicht auf 'Erledigt' gesetzt werden, weil kein Übermittlungskuvert vorhanden ist für Registration abgelehnt oder Registration erfolgreich abgeschlossen."

\* String.toLowerCase on the titles the cases use
ToLowerCase(title) ==
    CASE title = "Registration abgelehnt" -> "registration abgelehnt"
      [] title = "REGISTRATION erfolgreich abgeschlossen"
            -> "registration erfolgreich abgeschlossen"
      [] title = "Rechnung" -> "rechnung"
      [] title = "Vorregistrierung" -> "vorregistrierung"
      [] OTHER -> title

\* String.contains("registration")
ContainsRegistration(text) ==
    text \in {"registration abgelehnt", "registration erfolgreich abgeschlossen",
              "registration"}

\* a find closure that matches the title as it is written
TitleMatchesCaseSensitive(title) ==
    IF title = Null THEN FALSE ELSE ContainsRegistration(title)

\* item.getFieldValue("title")?.toLowerCase()?.contains("registration"), as
\* the find closure's truth value: null is false
TitleMatches(title) ==
    IF title = Null THEN FALSE ELSE ContainsRegistration(ToLowerCase(title))

\* a find closure that takes every item that is not "Completed" as open
IsOpenItemNotCompleted(status) == status # "Completed"

\* status != "Completed" && status != "NotRelevant"
IsOpenItem(status) == status # "Completed" /\ status # "NotRelevant"

\* list.find { closure }, given the closure's truth value for each element:
\* the place of the first element the closure holds for, 0 for null
Find(holds) ==
    LET I == {i \in 1..Len(holds) : holds[i]}
    IN  IF I = {} THEN 0 ELSE Min(I)

NotRun == [ran |-> FALSE, errors |-> <<>>, warnings |-> <<>>,
           failure |-> FALSE, rollback |-> FALSE]

\* the script, from its first line to its last: the resultObject it leaves
Script(entity) ==
    LET untouched == [NotRun EXCEPT !.ran = TRUE]
    IN  IF entity.isNull THEN untouched
        ELSE LET isPTLGSchalter == entity.systemName = "PTLGSchalter"
                 caseStatus == entity.status
             IN  IF caseStatus # "Completed" THEN untouched
                 ELSE LET openWorkflowItems ==
                              Find([i \in 1..Len(entity.workflowItems) |->
                                       IsOpenItem(entity.workflowItems[i])])
                          validTransmissionEnvelope ==
                              Find([i \in 1..Len(entity.envelopes) |->
                                       TitleMatches(entity.envelopes[i])])
                          r1 == IF openWorkflowItems # 0
                                THEN [untouched EXCEPT
                                         !.errors = Append(@, ErrOpenTasks)]
                                ELSE untouched
                          r2 == IF isPTLGSchalter
                                THEN [r1 EXCEPT !.warnings = Append(@, WarnEmail)]
                                ELSE r1
                      IN  IF validTransmissionEnvelope = 0 /\ ~isPTLGSchalter
                          THEN [r2 EXCEPT !.errors = Append(@, ErrNoEnvelope)]
                          ELSE r2

ItemStatuses == {"Completed", "NotRelevant", "InProgress", Null}
Titles == {"Registration abgelehnt", "REGISTRATION erfolgreich abgeschlossen",
           "Rechnung", Null}

Entities ==
    {NoEntity} \cup
    [isNull : {FALSE},
     systemName : {"PTLGSchalter", "PTLGOnline"},
     status : {"Completed", "InProgress", Null},
     workflowItems : BoundedSeq(ItemStatuses, MaxItems),
     envelopes : BoundedSeq(Titles, MaxEnvelopes)]

InitCase ==
    /\ mainEntity \in Entities
    /\ resultObject = NotRun
    /\ fullAnswer = <<>>
    /\ stage = "case"
    /\ result = NoResult
    /\ previous = NoResult
    /\ scores = [confidence_score |-> 0, fuzzy_score |-> 0]
    /\ classes = [confidence |-> "none", fuzzy |-> "none"]
    /\ rowView = [vectorClass |-> "none", vectorShown |-> 0,
                  textClass |-> "none", textShown |-> 0]
    /\ PageLoaded

\* the entity is saved and the script runs
RunScript ==
    /\ ~resultObject.ran
    /\ resultObject' = Script(mainEntity)
    /\ UNCHANGED <<mainEntity, splitVars, bandVars, uiVars>>

NextCase == RunScript

SpecCase == InitCase /\ [][NextCase]_vars

--------------------------------------------------------------------------
(* Claims about separateCommentAndAnswer *)

\* the patterns of the library that match s, by their place in the list
Matching(s) ==
    {i \in 1..Len(commentPatterns) : Match(commentPatterns[i], s).matched}

\* C1: the pattern used to split is the lowest-index pattern matching the
\* input, it is applied to the input, and no other pattern is applied, to
\* the input or to the remainder; with no matching pattern none is applied.
C1_FirstMatchWins ==
    stage = "split" =>
        IF Matching(fullAnswer) = {}
        THEN result.applied = <<>> /\ result.workingText = fullAnswer
        ELSE LET i == Min(Matching(fullAnswer))
                 m == Match(commentPatterns[i], fullAnswer)
             IN  /\ result.applied = <<i>>
                 /\ result.workingText = Trim(IF m.g2 # <<>> THEN m.g2 ELSE m.g1)

\* a pattern matched the input and a later pattern of the list matches the
\* remainder, which is left as it is
C1_Witness ==
    /\ stage = "split"
    /\ Len(result.applied) = 1
    /\ \E j \in Matching(result.workingText) : j > result.applied[1]
    /\ result.answer = result.workingText

\* C2 as stated: splitting the clean answer again returns the same answer,
\* for every input.
C2_ResplitChangesNothing ==
    stage = "resplit" => result.answer = previous.answer

\* the clean answer a is split by a second call: the first pattern matching
\* it is a header pattern, or a preamble pattern whose sentence (up to the
\* first "." or ":") is followed by further text
Resplits(a) ==
    /\ Matching(a) # {}
    /\ LET i == Min(Matching(a))
       IN  \/ commentPatterns[i].groups = 1
           \/ Match(commentPatterns[i], a).g2 # <<>>

\* C2 amended: splitting the clean answer again returns the same answer
\* exactly when the clean answer matches no pattern of the library or is
\* one preamble sentence with nothing after it; when it begins with a
\* header pattern or with a preamble followed by further text, the second
\* call strips that and the answer changes.
C2_ResplitChangesOnlySplittableAnswer ==
    stage = "resplit" =>
        /\ (result.answer = previous.answer) <=> ~Resplits(previous.answer)
        /\ Matching(previous.answer) = {} => result.comment = <<>>

\* the first call split a header off; the clean answer is a preamble
\* sentence with nothing after it, which the second call matches and
\* returns as it is
C2_Witness ==
    /\ stage = "resplit"
    /\ previous.applied # <<>>
    /\ previous.answer # <<>>
    /\ result.applied # <<>>
    /\ result.comment # <<>>
    /\ result.answer = previous.answer

\* the literal "**", word, "**" of a markdown header pattern at the start of s
BoldHeaderAt(s) ==
    \E i \in 1..Len(commentPatterns) :
        /\ commentPatterns[i].groups = 1
        /\ \E l \in commentPatterns[i].lits : Len(l) > 1 /\ StartsWith(s, l, FALSE)

\* what follows "**", word, "**", white space, an optional colon and white space
AfterBoldHeader(s) ==
    LET r1 == SkipSpaces(DropFirst(s, 3))
        r2 == IF r1 # <<>> /\ r1[1] = ":" THEN Tail(r1) ELSE r1
    IN  SkipSpaces(r2)

\* C3: for an input that begins with a markdown answer/solution header the
\* comment is empty and the answer is the text that follows the header.
C3_HeaderGivesEmptyComment ==
    (stage = "split" /\ BoldHeaderAt(fullAnswer)) =>
        /\ result.comment = <<>>
        /\ result.answer = CleanAnswer(Trim(AfterBoldHeader(fullAnswer)))

\* the example of the specification: the answer is as stated, the comment is not
C3_ExampleOutcome ==
    (stage = "split" /\ fullAnswer = ExampleHeader) =>
        /\ result.answer = <<"Ja, das ist möglich", ".">>
        /\ result.comment = <<"Ja, das ist möglich", ".">>

\* C4 as stated: when a pattern matches, the comment is the first capture
\* group with the markers removed, and the working answer is the second
\* capture group when it is non-empty, otherwise the first.
C4_GroupsAsCaptured ==
    (stage = "split" /\ result.applied # <<>>) =>
        LET m == Match(commentPatterns[result.applied[1]], fullAnswer)
        IN  /\ result.comment = RemoveMarkers(m.g1)
            /\ result.workingText = IF m.g2 # <<>> THEN m.g2 ELSE m.g1

\* C4 amended: when a pattern matches, the comment is the first capture
\* group with the markers removed and the surrounding white space trimmed,
\* and the working answer is the trimmed second capture group when that
\* group is non-empty, otherwise the trimmed first capture group.
C4_GroupsTrimmed ==
    (stage = "split" /\ result.applied # <<>>) =>
        LET m == Match(commentPatterns[result.applied[1]], fullAnswer)
        IN  /\ result.comment = Trim(RemoveMarkers(m.g1))
            /\ result.workingText = IF m.g2 # <<>> THEN Trim(m.g2) ELSE Trim(m.g1)

\* a pattern matched, markers were removed from the first group to give a
\* non-empty comment, and the second group is the working answer
C4_Witness ==
    /\ stage = "split"
    /\ result.applied # <<>>
    /\ LET m == Match(commentPatterns[result.applied[1]], fullAnswer)
       IN  /\ m.g2 # <<>>
           /\ result.workingText = m.g2
           /\ result.comment # <<>>
           /\ result.comment # m.g1

\* C5 as stated: when no pattern matches, the comment is empty and the whole
\* input is the working answer; for an input without bold markers the
\* answer returned is the input unchanged.
C5_NoMatchAnswerIsInput ==
    (stage = "split" /\ Matching(fullAnswer) = {}) =>
        /\ result.comment = <<>>
        /\ result.workingText = fullAnswer
        /\ (RemoveMarkers(fullAnswer) = fullAnswer => result.answer = fullAnswer)

\* C5 amended: when no pattern matches, the comment is empty and the whole
\* input is the working answer; for an input without bold markers the
\* answer returned is the input with the white space around it trimmed, so
\* the input itself when there is none around it (as in
\* "Die Antwort lautet 42.").
C5_NoMatchKeepsTrimmedInput ==
    (stage = "split" /\ Matching(fullAnswer) = {}) =>
        /\ result.comment = <<>>
        /\ result.workingText = fullAnswer
        /\ (RemoveMarkers(fullAnswer) = fullAnswer => result.answer = Trim(fullAnswer))
        /\ (fullAnswer = ExamplePlain => result.answer = fullAnswer)

\* no pattern matched an input without markers that has white space around
\* its text, and the answer is the text without that white space
C5_Witness ==
    /\ stage = "split"
    /\ result.applied = <<>>
    /\ RemoveMarkers(fullAnswer) = fullAnswer
    /\ result.comment = <<>>
    /\ result.workingText = fullAnswer
    /\ result.answer # <<>>
    /\ result.answer # fullAnswer
    /\ result.answer = Trim(fullAnswer)

\* C6: the clean-up applied to its own output returns that output.
C6_CleanUpIdempotent ==
    stage = "reclean" => result.answer = previous.answer

\* the first clean-up stripped a leading header and removed the markers of a
\* later span, and the second returned the same text
C6_Witness ==
    /\ stage = "reclean"
    /\ ClosingMarker(fullAnswer) # 0
    /\ previous.answer # <<>>
    /\ previous.answer # RemoveMarkers(DropFirst(fullAnswer, ClosingMarker(fullAnswer)))
    /\ Len(previous.answer) < Len(DropFirst(fullAnswer, ClosingMarker(fullAnswer))) - 1
    /\ result.answer = previous.answer

\* the lines of s: the runs of tokens between line breaks
RECURSIVE Lines(_)
Lines(s) ==
    LET I == {i \in 1..Len(s) : s[i] = "\n"}
    IN  IF I = {} THEN {s}
        ELSE {SubSeq(s, 1, Min(I) - 1)} \cup Lines(DropFirst(s, Min(I)))

\* what is left of the working text w once a leading bold span is deleted
\* with its text, and with the white space and the colon after it
AfterLeadingSpan(w) ==
    IF w # <<>> /\ w[1] = "**"
          /\ \E k \in 2..Len(w) :
                w[k] = "**" /\ \A j \in 2..(k - 1) : w[j] \notin {"**", "\n"}
    THEN LET k == CHOOSE k \in 2..Len(w) :
                    w[k] = "**" /\ \A j \in 2..(k - 1) : w[j] \notin {"**", "\n"}
             r1 == SkipSpaces(DropFirst(w, k))
         IN  SkipSpaces(IF r1 # <<>> /\ r1[1] = ":" THEN Tail(r1) ELSE r1)
    ELSE w

\* C7 as stated: only a leading bold span followed by a colon is deleted
\* with its text; every other bold span, a leading one without a colon
\* included, keeps its text and loses its markers.
C7_OnlyLabelWithColonDeleted ==
    stage = "clean" =>
        result.answer = Trim(RemoveBold(StripLabelWithColon(result.workingText)))

\* C7 amended: a bold span at the very start of the working answer is
\* deleted with its text whether or not a colon follows it; of the rest the
\* clean-up deletes markers only, never text, and it leaves no bold span
\* (two markers on one line) behind.
C7_LeadingSpanDeletedOthersUnwrapped ==
    stage = "clean" =>
        /\ Trim(RemoveMarkers(result.answer))
              = Trim(RemoveMarkers(AfterLeadingSpan(result.workingText)))
        /\ \A l \in Lines(result.answer) :
              Cardinality({i \in 1..Len(l) : l[i] = "**"}) <= 1

\* a leading bold span without a colon was deleted with its text, and a
\* later bold span kept its text
C7_Witness ==
    /\ stage = "clean"
    /\ fullAnswer = <<"**", "x", "**", " ", "Ja", " ", "**", "x", "**">>
    /\ result.answer = <<"Ja", " ", "x">>

\* C8: for the empty string and every string of white space the splitter
\* returns an empty comment and an empty answer.
C8_BlankInput ==
    (stage = "split" /\ \A i \in 1..Len(fullAnswer) : IsSpace(fullAnswer[i])) =>
        /\ result.comment = <<>>
        /\ result.answer = <<>>

C8_Witness ==
    /\ stage = "split"
    /\ fullAnswer = <<" ", "\n", " ">>
    /\ result.comment = <<>>
    /\ result.answer = <<>>

--------------------------------------------------------------------------
(* Claims about the bands *)

\* C9: a vector-similarity score is "high" from 0.7 on, "medium" from 0.4 to
\* below 0.7 and "low" below 0.4, both lower bounds inclusive; every score
\* has exactly one band.
C9_ConfidenceBands ==
    classes.confidence # "none" =>
        LET s == scores.confidence_score
        IN  /\ classes.confidence \in {"high", "medium", "low"}
            /\ classes.confidence = "high" <=> s >= 70
            /\ classes.confidence = "medium" <=> (s >= 40 /\ s < 70)
            /\ classes.confidence = "low" <=> s < 40

\* the boundary 0.7 is classified, as "high"
C9_Witness ==
    /\ scores.confidence_score = 70
    /\ classes.confidence = "high"

\* C10: a lexical score is "high" from 0.8 on, "medium" from 0.6 to below
\* 0.8 and "low" below 0.6; the band displayAnswers shows for the fuzzy
\* score is that of fuzzy_score alone, and the band it shows for the
\* confidence score is that of confidence_score alone.
C10_FuzzyBandsAndSeparateSignals ==
    /\ classes.fuzzy # "none" =>
          LET f == scores.fuzzy_score
          IN  /\ classes.fuzzy = "high" <=> f >= 80
              /\ classes.fuzzy = "medium" <=> (f >= 60 /\ f < 80)
              /\ classes.fuzzy = "low" <=> f < 60
    /\ rowView.textClass # "none" =>
          LET f == scores.fuzzy_score
              c == scores.confidence_score
          IN  /\ rowView.textClass =
                    (IF f >= 80 THEN "high" ELSE IF f >= 60 THEN "medium" ELSE "low")
              /\ rowView.vectorClass =
                    (IF c >= 70 THEN "high" ELSE IF c >= 40 THEN "medium" ELSE "low")
              /\ rowView.textShown = f
              /\ rowView.vectorShown = c

\* an answer whose two scores fall in different bands is displayed with a
\* different band on each line
C10_Witness ==
    /\ scores.fuzzy_score = 80
    /\ scores.confidence_score = 69
    /\ classes.fuzzy = "high"
    /\ rowView.textClass = "high"
    /\ rowView.vectorClass = "medium"

--------------------------------------------------------------------------
(* Claims about the case-closure verification script *)

\* whether a message is among the error messages of the result object
HasError(msg) == \E i \in 1..Len(resultObject.errors) : resultObject.errors[i] = msg

\* C14: the script adds the 'open workflow tasks' error exactly when the
\* entity is not null, its status is "Completed" and one of its workflow
\* items has a status other than "Completed" and "NotRelevant"; it never
\* sets a failure on the result object and never throws a rollback.
C14_OpenTasksError ==
    resultObject.ran =>
        /\ HasError(ErrOpenTasks) <=>
              /\ ~mainEntity.isNull
              /\ mainEntity.status = "Completed"
              /\ \E i \in 1..Len(mainEntity.workflowItems) :
                    mainEntity.workflowItems[i] \notin {"Completed", "NotRelevant"}
        /\ ~resultObject.failure
        /\ ~resultObject.rollback

\* a completed case with a not relevant and an open item: the error is
\* added, no failure is set and nothing is thrown
C14_Witness ==
    /\ resultObject.ran
    /\ ~mainEntity.isNull
    /\ mainEntity.workflowItems = <<"NotRelevant", "InProgress">>
    /\ HasError(ErrOpenTasks)
    /\ ~resultObject.failure /\ ~resultObject.rollback

\* C15: the script adds the 'missing transmission envelope' error exactly
\* when the case is "Completed", its system name is not "PTLGSchalter" and
\* no envelope of the case has a title that contains "registration" in any
\* case of letters (a null title contains nothing); for a completed
\* "PTLGSchalter" case it adds the e-mail warning and never this error.
C15_MissingEnvelopeError ==
    resultObject.ran =>
        /\ HasError(ErrNoEnvelope) <=>
              /\ ~mainEntity.isNull
              /\ mainEntity.status = "Completed"
              /\ mainEntity.systemName # "PTLGSchalter"
              /\ \A i \in 1..Len(mainEntity.envelopes) :
                    mainEntity.envelopes[i] \notin
                        {"Registration abgelehnt",
                         "REGISTRATION erfolgreich abgeschlossen"}
        /\ (/\ ~mainEntity.isNull
            /\ mainEntity.status = "Completed"
            /\ mainEntity.systemName = "PTLGSchalter")
              => (resultObject.warnings = <<WarnEmail>> /\ ~HasError(ErrNoEnvelope))
        /\ (mainEntity.isNull \/ mainEntity.status # "Completed"
               \/ mainEntity.systemName # "PTLGSchalter")
              => resultObject.warnings = <<>>

\* a completed case of another system whose one matching envelope is
\* written in capitals: no error
C15_Witness ==
    /\ resultObject.ran
    /\ ~mainEntity.isNull
    /\ mainEntity.status = "Completed"
    /\ mainEntity.systemName = "PTLGOnline"
    /\ mainEntity.envelopes = <<Null, "REGISTRATION erfolgreich abgeschlossen">>
    /\ ~HasError(ErrNoEnvelope)

--------------------------------------------------------------------------
(* Claims about the page: batches, single answers, requests               *)

\* the step ends the handler of a request of this kind with a result
Succeeds(kind) == last'.kind = kind /\ last'.outcome = "ok"

\* the step ends the handler of a request of this kind with a failure: fetch
\* rejected, the response was not ok, or its body could not be read
Fails(kind) ==
    last'.kind = kind /\ last'.outcome \in {"http", "network", "parse"}

\* answers is a batch result for these questions
IsBatchOf(answers, questions) ==
    /\ Len(answers) = Len(questions)
    /\ \A i \in 1..Len(questions) :
           answers[i] \in {AnswerResult(questions[i]), FailureMarker(i)}

IsAnswered(outcome) == "answer" \in DOMAIN outcome

\* the answers view has an entry for each question, in order, labelled with
\* the question and carrying the outcome
ShownInOrder(items, questions, answers) ==
    /\ Len(items) = Len(questions)
    /\ \A i \in 1..Len(items) :
           /\ items[i].label = i
           /\ items[i].question = questions[i]
           /\ IsAnswered(answers[i]) => items[i].answer = answers[i].answer

\* the sheet has a row for each question, in order
ExportedInOrder(rows, questions, answers) ==
    /\ Len(rows) = Len(questions)
    /\ \A i \in 1..Len(rows) :
           /\ rows[i].question = questions[i]
           /\ IsAnswered(answers[i]) =>
                  /\ rows[i].answer = separateCommentAndAnswer(answers[i].answer).answer
                  /\ rows[i].confidence = answers[i].confidence_score

\* a batch settles with a result while the questions are those submitted
BatchRunSettles ==
    /\ Succeeds("generateAll")
    /\ last'.questions = currentQuestions

\* exportAnswers is called right after such a batch
ExportAfterBatch ==
    /\ last.op \in {"generateAllDone", "generateAllDisplayFailed"}
    /\ IsBatchOf(currentAnswers, currentQuestions)
    /\ last'.op \in {"exported", "exportThrew"}

\* C11: for one batch run over n questions with nothing in between, the
\* answers view and the Excel export each have exactly n entries in the
\* order of the questions, entry i labelled with question i and carrying the
\* i-th outcome returned; no entry is dropped.
C11_BatchShownAndExportedInOrder ==
    [][/\ BatchRunSettles =>
              ShownInOrder(answersView'.items, currentQuestions, currentAnswers')
       /\ ExportAfterBatch =>
              /\ Len(exported') = Len(exported) + 1
              /\ ExportedInOrder(exported'[Len(exported')], currentQuestions,
                                 currentAnswers)]_vars

\* what holds of the code: the same for a batch in which every question was
\* answered
C11_AnsweredBatchShownAndExportedInOrder ==
    [][/\ (BatchRunSettles /\ \A i \in 1..Len(currentAnswers') :
                                  IsAnswered(currentAnswers'[i])) =>
              ShownInOrder(answersView'.items, currentQuestions, currentAnswers')
       /\ (ExportAfterBatch /\ \A i \in 1..Len(currentAnswers) :
                                   IsAnswered(currentAnswers[i])) =>
              /\ Len(exported') = Len(exported) + 1
              /\ ExportedInOrder(exported'[Len(exported')], currentQuestions,
                                 currentAnswers)]_vars

\* C12: when answering fails for question i of a batch, the answers view has
\* an entry at position i, and the answered questions of the batch are
\* displayed with their answers.
C12_FailureShownBesideSiblings ==
    (/\ last.op \in {"generateAllDone", "generateAllDisplayFailed"}
     /\ \E i \in 1..Len(currentAnswers) : ~IsAnswered(currentAnswers[i])) =>
        /\ Len(answersView.items) = Len(currentAnswers)
        /\ \A j \in 1..Len(currentAnswers) :
               IsAnswered(currentAnswers[j]) =>
                   answersView.items[j].answer = currentAnswers[j].answer

\* what holds of the code: the view stops before the first failed question
C12_ViewStopsAtFirstFailure ==
    (/\ last.op \in {"generateAllDone", "generateAllDisplayFailed"}
     /\ \E i \in 1..Len(currentAnswers) : ~IsAnswered(currentAnswers[i])) =>
        /\ last.op = "generateAllDisplayFailed"
        /\ alert.type = "error"
        /\ Len(answersView.items) =
               Min({i \in 1..Len(currentAnswers) : ~IsAnswered(currentAnswers[i])}) - 1

\* C13: when the request of generateSingleAnswer fails (fetch rejects, the
\* response is not ok, or its body cannot be read), an error alert with the
\* failure description is shown and the single-answer result area is left as
\* it was.
C13_FailedSingleRequestAlertsOnly ==
    [][Fails("single") =>
           /\ alert' = Alert("error", "Fehler beim Generieren der Antwort: ",
                             ErrorMessage([kind |-> last'.outcome, status |-> "500"]))
           /\ singleView' = singleView]_vars

\* reached: a request failed with a bad status after an earlier answer was
\* displayed
C13_Witness ==
    /\ last.op = "singleFailed"
    /\ last.outcome = "http"
    /\ singleView.shown
    /\ alert.type = "error"

\* the request generateSingleAnswer has just put in flight
Sent == inflight'[Len(inflight')]

\* C16: generateSingleAnswer sends a request only for a question that is not
\* empty once trimmed. With a category it posts question, category and the
\* context if not empty, as a form, to /generate-answer-by-category; without
\* one it posts {question, context} as JSON to /generate-answer, context null
\* when empty. An empty question gives a warning and no request.
C16_SingleRequestAsSelected ==
    [][last'.op \in {"singleEmpty", "singleStarted"} =>
           LET question == Trim(last'.input.question)
               context == Trim(last'.input.context)
               category == last'.input.category
           IN  IF question = <<>>
               THEN /\ inflight' = inflight
                    /\ alert'.type = "warning"
               ELSE /\ Len(inflight') = Len(inflight) + 1
                    /\ SubSeq(inflight', 1, Len(inflight)) = inflight
                    /\ Sent.method = "POST"
                    /\ Sent.body.question = question
                    /\ IF category # ""
                       THEN /\ Sent.endpoint = "/generate-answer-by-category"
                            /\ Sent.body.format = "form"
                            /\ Sent.body.category = category
                            /\ Sent.body.nullFields = {}
                            /\ IF context = <<>>
                               THEN Sent.body.fields = {"question", "category"}
                               ELSE /\ Sent.body.fields = {"question", "category", "context"}
                                    /\ Sent.body.context = context
                       ELSE /\ Sent.endpoint = "/generate-answer"
                            /\ Sent.body.format = "json"
                            /\ Sent.body.fields = {"question", "context"}
                            /\ IF context = <<>>
                               THEN Sent.body.nullFields = {"context"}
                               ELSE /\ Sent.body.nullFields = {}
                                    /\ Sent.body.context = context]_vars

\* reached: a question with blanks around it was sent with a category and
\* without a context
C16_Witness ==
    /\ last.op = "singleStarted"
    /\ last.input.category = "pricing"
    /\ last.input.question # Trim(last.input.question)
    /\ Trim(last.input.context) = <<>>
    /\ inflight # <<>>
    /\ inflight[Len(inflight)].endpoint = "/generate-answer-by-category"

\* C17: every row displayAnswers or exportAnswers produced pairs an answer
\* with the question it was generated for, and currentAnswers, when not
\* empty, is a result for the current contents of currentQuestions.
C17_AnswersPairedWithTheirQuestions ==
    /\ \A i \in 1..Len(answersView.items) :
           IsAnswered(currentAnswers[i]) =>
               answersView.items[i].question = currentAnswers[i].question
    /\ last.op = "exported" =>
           \A i \in 1..Len(currentAnswers) :
               exported[Len(exported)][i].question = currentAnswers[i].question
    /\ currentAnswers # <<>> => IsBatchOf(currentAnswers, currentQuestions)

\* what holds of the code: a result, when it arrives, is one for the
\* questions that were submitted
C17_AnswersAreForSubmittedQuestions ==
    [][Succeeds("generateAll") =>
           IsBatchOf(currentAnswers', last'.questions)]_vars

\* a request started by one of the five handlers that show the overlay has
\* not finished: it awaits the response or the body
LoadingInFlight ==
    \/ \E i \in 1..Len(inflight) : inflight[i].kind # "download"
    \/ \E j \in 1..Len(reading) : reading[j].kind # "download"

\* C18: the overlay is shown whenever a request started by handleExcelUpload,
\* generateAllAnswers, handleHistoricalUpload, generateSingleAnswer or
\* clearAllData is in flight, and hidden when none is.
C18_OverlayWhileInFlight == overlay <=> LoadingInFlight

\* what holds of the code: once none of these requests is in flight the
\* overlay is hidden
C18_HiddenWhenIdle == ~LoadingInFlight => ~overlay

\* C19: a failed request of handleExcelUpload or generateAllAnswers leaves
\* currentQuestions and currentAnswers as they were; generateAllAnswers
\* without questions and exportAnswers without answers show a warning and
\* change nothing else.
C19_FailureChangesNothing ==
    [][/\ (Fails("upload") \/ Fails("generateAll")) =>
              UNCHANGED <<currentQuestions, currentAnswers>>
       /\ ((\/ last'.op \in {"generateAllEmpty", "generateAllStarted"}
               /\ currentQuestions = <<>>
            \/ last'.op \in {"exportEmpty", "exported", "exportThrew"}
               /\ currentAnswers = <<>>) =>
              /\ alert'.type = "warning"
              /\ UNCHANGED <<currentQuestions, currentAnswers, inflight, reading,
                             overlay, questionsView, answersView,
                             processingView, singleView, exported>>)]_vars

\* reached: an upload failed while questions of an earlier upload were stored
C19_Witness ==
    /\ last.op = "uploadFailed"
    /\ currentQuestions # <<>>
    /\ alert.type = "error"

====
